---- MODULE Spec2Model ----
(***************************************************************************)
(* A model of serde_bencoded: the byte cursor and the decoder of           *)
(* src/src/de.rs, the encoder of src/src/ser.rs and the key encoder of     *)
(* src/src/ser/only_string_ser.rs.                                         *)
(*                                                                         *)
(* Bytes are the numbers 0..255.  A 64-bit integer is kept as its sign and *)
(* its decimal digits ([neg, mag], mag without leading zeros), so that the *)
(* full ranges of u64 and i64 are represented and range checks compare     *)
(* digit strings.  A typed value of the serde data model is a record       *)
(* [t |-> kind, v |-> payload]; a target type (shape) has the same form.   *)
(***************************************************************************)
EXTENDS Integers, Sequences, FiniteSets, TLC

----------------------------------------------------------------------------
(* Bytes the code names. *)
ByteI == 105
ByteL == 108
ByteD == 100
ByteE == 101
Colon == 58
Minus == 45
Plus == 43
Digit0 == 48
Digit9 == 57
ByteA == 97
ByteB == 98
ByteFF == 255
NoByte == -1

IsDigit(b) == b >= Digit0 /\ b <= Digit9

Drop(s, n) == SubSeq(s, n + 1, Len(s))
Take(s, n) == SubSeq(s, 1, n)

RECURSIVE Concat(_)
Concat(ss) == IF ss = <<>> THEN <<>> ELSE Head(ss) \o Concat(Tail(ss))

----------------------------------------------------------------------------
(* Errors: DeError and SerError. *)
NoErr == [k |-> "none", got |-> NoByte, exp |-> NoByte]
DeErr(kind) == [k |-> kind, got |-> NoByte, exp |-> NoByte]
SyntaxError(got, exp) == [k |-> "SyntaxError", got |-> got, exp |-> exp]
UnexpectedEof == DeErr("UnexpectedEof")

----------------------------------------------------------------------------
(* 64-bit integers as decimal digit strings. *)
U64Max == <<1,8,4,4,6,7,4,4,0,7,3,7,0,9,5,5,1,6,1,5>>
I64Max == <<9,2,2,3,3,7,2,0,3,6,8,5,4,7,7,5,8,0,7>>
I64MinMag == <<9,2,2,3,3,7,2,0,3,6,8,5,4,7,7,5,8,0,8>>
U8Max == <<2,5,5>>
I32Max == <<2,1,4,7,4,8,3,6,4,7>>
I32MinMag == <<2,1,4,7,4,8,3,6,4,8>>

MkInt(neg, mag) == [neg |-> neg, mag |-> mag]
Zero == MkInt(FALSE, <<0>>)

RECURSIVE StripZeros(_)
StripZeros(ds) ==
    IF Len(ds) > 1 /\ ds[1] = 0 THEN StripZeros(Tail(ds)) ELSE ds

RECURSIVE LexLeq(_, _)
(* slice comparison: a <= b, byte by byte, a proper prefix being smaller *)
LexLeq(a, b) ==
    IF a = <<>> THEN TRUE
    ELSE IF b = <<>> THEN FALSE
    ELSE IF a[1] # b[1] THEN a[1] < b[1]
    ELSE LexLeq(Tail(a), Tail(b))

(* a <= b for two digit strings without leading zeros *)
MagLeq(a, b) == Len(a) < Len(b) \/ (Len(a) = Len(b) /\ LexLeq(a, b))

RECURSIVE NatDigits(_)
NatDigits(n) == IF n < 10 THEN <<n>> ELSE NatDigits(n \div 10) \o <<n % 10>>

RECURSIVE MagNat(_)
(* the number a short digit string denotes *)
MagNat(ds) == IF ds = <<>> THEN 0 ELSE 10 * MagNat(Take(ds, Len(ds) - 1)) + ds[Len(ds)]

AsciiDigits(ds) == [i \in 1..Len(ds) |-> Digit0 + ds[i]]

(* Format without the sign *)
M_Format(n) == AsciiDigits(n.mag)

(* itoa::Buffer::format *)
Format(n) == (IF n.neg THEN <<Minus>> ELSE <<>>) \o AsciiDigits(n.mag)

MaxOf(ty) ==
    CASE ty \in {"u64", "usize"} -> U64Max
      [] ty = "i64" -> I64Max
      [] ty = "u8" -> U8Max
      [] ty = "i32" -> I32Max

MinMagOf(ty) ==
    CASE ty \in {"u64", "usize", "u8"} -> <<0>>
      [] ty = "i64" -> I64MinMag
      [] ty = "i32" -> I32MinMag

InRange(n, ty) ==
    IF n.neg THEN MagLeq(n.mag, MinMagOf(ty)) ELSE MagLeq(n.mag, MaxOf(ty))

BtoiErr == [st |-> "err", val |-> Zero]
BtoiOk(n) == [st |-> "ok", val |-> n]

(* btoi::btou: digits only, checked_mul and checked_add *)
btou(bytes, ty) ==
    IF bytes = <<>> THEN BtoiErr
    ELSE IF \E i \in 1..Len(bytes) : ~IsDigit(bytes[i]) THEN BtoiErr
    ELSE LET mag == StripZeros([i \in 1..Len(bytes) |-> bytes[i] - Digit0])
         IN IF MagLeq(mag, MaxOf(ty)) THEN BtoiOk(MkInt(FALSE, mag)) ELSE BtoiErr

(* btoi::btoi: an optional sign; after '-' checked_mul and checked_sub *)
btoi(bytes, ty) ==
    IF bytes = <<>> THEN BtoiErr
    ELSE IF bytes[1] = Plus THEN btou(Tail(bytes), ty)
    ELSE IF bytes[1] # Minus THEN btou(bytes, ty)
    ELSE LET digits == Tail(bytes)
         IN IF digits = <<>> THEN BtoiErr
            ELSE IF \E i \in 1..Len(digits) : ~IsDigit(digits[i]) THEN BtoiErr
            ELSE LET mag == StripZeros([i \in 1..Len(digits) |-> digits[i] - Digit0])
                 IN IF ~MagLeq(mag, MinMagOf(ty)) THEN BtoiErr
                    ELSE BtoiOk(MkInt(mag # <<0>>, mag))

----------------------------------------------------------------------------
(* The byte cursor: Deserializer::input is the remaining input.  A cursor  *)
(* operation yields [st, out, err, rest]: st is "ok", "err" or "panic"     *)
(* (an out-of-range slice index aborts the call), out the bytes handed     *)
(* out, rest the remaining input afterwards.                               *)
COk(out, rest) == [st |-> "ok", out |-> out, err |-> NoErr, rest |-> rest]
CErr(e, rest) == [st |-> "err", out |-> <<>>, err |-> e, rest |-> rest]
CPanic(rest) == [st |-> "panic", out |-> <<>>, err |-> NoErr, rest |-> rest]

peek_next(input) ==
    IF input = <<>> THEN CErr(UnexpectedEof, input) ELSE COk(<<input[1]>>, input)

peek_second(input) ==
    IF Len(input) < 2 THEN CErr(UnexpectedEof, input) ELSE COk(<<input[2]>>, input)

(* ret = peek_next(); input = &input[1..] (panics on the empty input); ret *)
advance(input) ==
    IF Len(input) < 1 THEN CPanic(input) ELSE COk(<<input[1]>>, Tail(input))

(* advance_by that hands the slice out and leaves the cursor where it was *)
M_advance_by(input, len) ==
    IF len > Len(input) THEN CPanic(input) ELSE COk(Take(input, len), input)

(* &input[0..len] panics when len > input.len() *)
advance_by(input, len) ==
    IF len > Len(input) THEN CPanic(input) ELSE COk(Take(input, len), Drop(input, len))

RECURSIVE Position(_, _)
(* index of the first byte equal to b, 0 when there is none *)
Position(bytes, b) ==
    IF bytes = <<>> THEN 0
    ELSE IF bytes[1] = b THEN 1
    ELSE LET p == Position(Tail(bytes), b) IN IF p = 0 THEN 0 ELSE p + 1

slice_while(bytes, end_byte) ==
    LET p == Position(bytes, end_byte)
    IN IF p = 0 THEN CErr(UnexpectedEof, bytes) ELSE COk(Take(bytes, p - 1), bytes)

advance_to(input, byte) ==
    LET ret == slice_while(input, byte)
    IN IF ret.st # "ok" THEN ret ELSE COk(ret.out, Drop(input, Len(ret.out) + 1))

advance_to_e(input) == advance_to(input, ByteE)

(* a usize against a slice length: a usize of more than six digits exceeds it *)
UsizeExceeds(n, len) == Len(n.mag) > 6 \/ MagNat(n.mag) > len

parse_byte_string(input) ==
    LET num_bytes == advance_to(input, Colon)
    IN IF num_bytes.st # "ok" THEN num_bytes
       ELSE LET n == btoi(num_bytes.out, "usize")
            IN IF n.st # "ok" THEN CErr(DeErr("ParseIntegerError"), num_bytes.rest)
               ELSE IF UsizeExceeds(n.val, Len(num_bytes.rest)) THEN CPanic(num_bytes.rest)
               ELSE advance_by(num_bytes.rest, MagNat(n.val.mag))

(* std::str::from_utf8(..).is_ok() *)
RECURSIVE Utf8Valid(_)
Utf8Valid(bs) ==
    LET Cont(i) == Len(bs) >= i /\ bs[i] >= 128 /\ bs[i] <= 191
        In(i, lo, hi) == Len(bs) >= i /\ bs[i] >= lo /\ bs[i] <= hi
        b == bs[1]
    IN IF bs = <<>> THEN TRUE
       ELSE IF b < 128 THEN Utf8Valid(Tail(bs))
       ELSE IF b >= 194 /\ b <= 223 THEN Cont(2) /\ Utf8Valid(Drop(bs, 2))
       ELSE IF b = 224 THEN In(2, 160, 191) /\ Cont(3) /\ Utf8Valid(Drop(bs, 3))
       ELSE IF b = 237 THEN In(2, 128, 159) /\ Cont(3) /\ Utf8Valid(Drop(bs, 3))
       ELSE IF b >= 225 /\ b <= 239 THEN Cont(2) /\ Cont(3) /\ Utf8Valid(Drop(bs, 3))
       ELSE IF b = 240 THEN In(2, 144, 191) /\ Cont(3) /\ Cont(4) /\ Utf8Valid(Drop(bs, 4))
       ELSE IF b >= 241 /\ b <= 243 THEN Cont(2) /\ Cont(3) /\ Cont(4) /\ Utf8Valid(Drop(bs, 4))
       ELSE IF b = 244 THEN In(2, 128, 143) /\ Cont(3) /\ Cont(4) /\ Utf8Valid(Drop(bs, 4))
       ELSE FALSE

----------------------------------------------------------------------------
(* Typed values and target types (shapes): [t |-> kind, v |-> payload].     *)
V(t, v) == [t |-> t, v |-> v]
NoVal == V("-", <<>>)
EndMark == V("-end", <<>>)
Unit == V("unit", <<>>)
IntTypes == {"u64", "i64", "u8", "i32"}

(* A decode result: [st, val, err, rest], st "ok", "err" or "panic". *)
DOk(val, rest) == [st |-> "ok", val |-> val, err |-> NoErr, rest |-> rest]
DErr(e, rest) == [st |-> "err", val |-> NoVal, err |-> e, rest |-> rest]
Fail(r) == [st |-> r.st, val |-> NoVal, err |-> r.err, rest |-> r.rest]
(* the ? operator: a failure of r is what the function returns, otherwise *)
(* the function goes on with r                                            *)
Try(r, Then(_)) == IF r.st # "ok" THEN Fail(r) ELSE Then(r)
Message == DeErr("Message")

(* the identifier visitor of a derived struct (fields) or enum (variants):  *)
(* names is the list of names, strict says that an unknown one is an error  *)
Ident(names, strict) == V("ident", <<names, strict>>)
NameIndex(names, name) ==
    IF \E i \in 1..Len(names) : names[i] = name
    THEN CHOOSE i \in 1..Len(names) : names[i] = name
    ELSE 0
IdentByName(vis, name, rest) ==
    LET i == NameIndex(vis.v[1], name)
    IN IF i = 0 /\ vis.v[2] THEN DErr(Message, rest) ELSE DOk(V("field", i), rest)
IdentByIndex(vis, n, rest) ==
    LET i == IF Len(n.mag) > 6 \/ MagNat(n.mag) >= Len(vis.v[1]) THEN 0 ELSE MagNat(n.mag) + 1
    IN IF i = 0 /\ vis.v[2] THEN DErr(Message, rest) ELSE DOk(V("field", i), rest)

(* Visitor::visit_u64 / visit_i64 of the visitor that belongs to shape vis *)
visit_int(vis, kind, n, rest) ==
    CASE vis.t \in IntTypes ->
            IF InRange(n, vis.t) THEN DOk(V(vis.t, n), rest) ELSE DErr(Message, rest)
      [] vis.t = "any" -> DOk(V(kind, n), rest)
      [] vis.t = "ignored" -> DOk(Unit, rest)
      [] vis.t = "ident" /\ kind = "u64" -> IdentByIndex(vis, n, rest)
      [] OTHER -> DErr(Message, rest)

visit_bool(vis, b, rest) ==
    CASE vis.t = "bool" -> DOk(V("bool", b), rest)
      [] vis.t = "any" -> DOk(V("bool", b), rest)
      [] vis.t = "ignored" -> DOk(Unit, rest)
      [] OTHER -> DErr(Message, rest)

visit_borrowed_str(vis, s, rest) ==
    CASE vis.t \in {"str", "any"} -> DOk(V("str", s), rest)
      [] vis.t = "bytes" -> DOk(V("bytes", s), rest)
      [] vis.t = "ignored" -> DOk(Unit, rest)
      [] vis.t = "ident" -> IdentByName(vis, s, rest)
      [] OTHER -> DErr(Message, rest)

visit_borrowed_bytes(vis, b, rest) ==
    CASE vis.t \in {"bytes", "any"} -> DOk(V("bytes", b), rest)
      [] vis.t = "str" -> IF Utf8Valid(b) THEN DOk(V("str", b), rest) ELSE DErr(Message, rest)
      [] vis.t = "ignored" -> DOk(Unit, rest)
      [] vis.t = "ident" -> IdentByName(vis, b, rest)
      [] OTHER -> DErr(Message, rest)

visit_unit(vis, rest) ==
    CASE vis.t \in {"unit", "any", "ignored"} -> DOk(Unit, rest)
      [] OTHER -> DErr(Message, rest)

deserialize_bool(input, vis) ==
    LET m == advance(input)
    IN IF m.st # "ok" THEN Fail(m)
       ELSE IF m.out[1] # ByteI THEN DErr(DeErr("ExpectedInteger"), m.rest)
       ELSE LET b == advance_to_e(m.rest)
            IN IF b.st # "ok" THEN Fail(b)
               ELSE IF Len(b.out) # 1 \/ b.out[1] \notin {Digit0, Digit0 + 1}
                    THEN DErr(Message, b.rest)
                    ELSE visit_bool(vis, b.out[1] = Digit0 + 1, b.rest)

(* deserialize_int that parses every token as a u64 *)
M_deserialize_int(input, vis, ty) ==
    LET marker == advance(input)
    IN IF marker.st # "ok" THEN Fail(marker)
       ELSE IF marker.out[1] # ByteI THEN DErr(SyntaxError(marker.out[1], ByteI), marker.rest)
       ELSE LET txt == advance_to_e(marker.rest)
            IN IF txt.st # "ok" THEN Fail(txt)
               ELSE LET n == btoi(txt.out, "u64")
                    IN IF n.st # "ok" THEN DErr(DeErr("ParseIntegerError"), txt.rest)
                       ELSE visit_int(vis, ty, n.val, txt.rest)

(* deserialize_i64 (ty = "i64") and deserialize_u64 (ty = "u64") *)
deserialize_int(input, vis, ty) ==
    LET marker == advance(input)
    IN IF marker.st # "ok" THEN Fail(marker)
       ELSE IF marker.out[1] # ByteI THEN DErr(SyntaxError(marker.out[1], ByteI), marker.rest)
       ELSE LET txt == advance_to_e(marker.rest)
            IN IF txt.st # "ok" THEN Fail(txt)
               ELSE LET n == btoi(txt.out, ty)
                    IN IF n.st # "ok" THEN DErr(DeErr("ParseIntegerError"), txt.rest)
                       ELSE visit_int(vis, ty, n.val, txt.rest)

deserialize_i64(input, vis) == deserialize_int(input, vis, "i64")
deserialize_u64(input, vis) == deserialize_int(input, vis, "u64")

deserialize_str(input, vis) ==
    LET bytes == parse_byte_string(input)
    IN IF bytes.st # "ok" THEN Fail(bytes)
       ELSE IF ~Utf8Valid(bytes.out) THEN DErr(DeErr("Utf8Error"), bytes.rest)
       ELSE visit_borrowed_str(vis, bytes.out, bytes.rest)

deserialize_bytes(input, vis) ==
    LET bytes == parse_byte_string(input)
    IN IF bytes.st # "ok" THEN Fail(bytes)
       ELSE visit_borrowed_bytes(vis, bytes.out, bytes.rest)

(* deserialize_byte_string that is Simple's whatever the behaviour *)
M_deserialize_byte_string(input, vis, beh) == deserialize_bytes(input, vis)

(* Behaviour::deserialize_byte_string of Auto and of Simple *)
deserialize_byte_string(input, vis, beh) ==
    IF beh = "Auto"
    THEN LET bytes == parse_byte_string(input)
         IN IF bytes.st # "ok" THEN Fail(bytes)
            ELSE IF Utf8Valid(bytes.out) THEN visit_borrowed_str(vis, bytes.out, bytes.rest)
            ELSE visit_borrowed_bytes(vis, bytes.out, bytes.rest)
    ELSE deserialize_bytes(input, vis)

(* deserialize_unit that leaves the cursor where it is *)
M_deserialize_unit(input, vis) == visit_unit(vis, input)

deserialize_unit(input, vis) ==
    LET r == advance_by(input, 2)
    IN IF r.st # "ok" THEN Fail(r) ELSE visit_unit(vis, r.rest)

(* deserialize_f64 that reads a bencode integer *)
M_deserialize_f64(input, vis) == deserialize_i64(input, V("i64", <<>>))

(* deserialize_f32 and deserialize_f64: the input is not looked at *)
deserialize_f64(input, vis) == DErr(Message, input)

(* chars().count() of valid UTF-8: the bytes that are not continuation bytes *)
CharCount(bs) == Cardinality({ i \in 1..Len(bs) : bs[i] < 128 \/ bs[i] > 191 })

visit_char(vis, ch, rest) ==
    CASE vis.t \in {"char", "any"} -> DOk(V("char", ch), rest)
      [] vis.t = "ignored" -> DOk(Unit, rest)
      [] OTHER -> DErr(Message, rest)

deserialize_char(input, vis) ==
    Try(parse_byte_string(input), LAMBDA s :
        IF Len(s.out) > 4 THEN DErr(DeErr("ExpectedCharString"), s.rest)
        ELSE IF ~Utf8Valid(s.out) THEN DErr(DeErr("Utf8Error"), s.rest)
        ELSE IF CharCount(s.out) # 1 THEN DErr(DeErr("ExpectedCharString"), s.rest)
        ELSE visit_char(vis, s.out, s.rest))

----------------------------------------------------------------------------
(* The recursive part of the decoder.  Deserialize(input, shape, beh) is    *)
(* T::deserialize(&mut deserializer) for the type T that shape describes,   *)
(* with the visitors serde and its derive give T.                          *)
RECURSIVE Deserialize(_, _, _), deserialize_any(_, _, _), deserialize_seq(_, _, _),
          deserialize_map(_, _, _), deserialize_enum(_, _, _), VecLoop(_, _, _, _),
          TupleLoop(_, _, _, _), MapLoop(_, _, _, _, _), StructLoop(_, _, _, _),
          IgnoreSeq(_, _), IgnoreMap(_, _)

(* deserialize_any without the lookahead for the sign *)
M_deserialize_any(input, vis, beh) ==
    LET p == peek_next(input)
    IN IF p.st # "ok" THEN Fail(p)
       ELSE IF p.out[1] = ByteI THEN deserialize_u64(input, vis)
       ELSE IF p.out[1] = ByteL THEN deserialize_seq(input, vis, beh)
       ELSE IF p.out[1] = ByteD THEN deserialize_map(input, vis, beh)
       ELSE IF IsDigit(p.out[1]) THEN deserialize_byte_string(input, vis, beh)
       ELSE DErr(SyntaxError(p.out[1], NoByte), input)

deserialize_any(input, vis, beh) ==
    LET p == peek_next(input)
    IN IF p.st # "ok" THEN Fail(p)
       ELSE IF p.out[1] = ByteI
       THEN LET q == peek_second(input)
            IN IF q.st # "ok" THEN Fail(q)
               ELSE IF q.out[1] = Minus THEN deserialize_i64(input, vis)
               ELSE deserialize_u64(input, vis)
       ELSE IF p.out[1] = ByteL THEN deserialize_seq(input, vis, beh)
       ELSE IF p.out[1] = ByteD THEN deserialize_map(input, vis, beh)
       ELSE IF IsDigit(p.out[1]) THEN deserialize_byte_string(input, vis, beh)
       ELSE DErr(SyntaxError(p.out[1], NoByte), input)

(* deserialize_option that never looks whether input is left *)
M_deserialize_option(input, vis, beh) ==
    Try(Deserialize(input, vis.v, beh), LAMBDA r : DOk(V("some", r.val), r.rest))

deserialize_option(input, vis, beh) ==
    IF input = <<>> THEN DOk(V("none", <<>>), input)
    ELSE Try(Deserialize(input, vis.v, beh), LAMBDA r : DOk(V("some", r.val), r.rest))

(* next_element_seed that reads every element self-describing *)
M_next_element_seed(input, seed, beh) ==
    LET p == peek_next(input)
    IN IF p.st # "ok" THEN Fail(p)
       ELSE IF p.out[1] = ByteE
       THEN LET a == advance(input) IN IF a.st # "ok" THEN Fail(a) ELSE DOk(EndMark, a.rest)
       ELSE Deserialize(input, V("any", <<>>), beh)

(* ListAccess::next_element_seed; EndMark stands for Ok(None) *)
next_element_seed(input, seed, beh) ==
    LET p == peek_next(input)
    IN IF p.st # "ok" THEN Fail(p)
       ELSE IF p.out[1] = ByteE
       THEN LET a == advance(input) IN IF a.st # "ok" THEN Fail(a) ELSE DOk(EndMark, a.rest)
       ELSE Deserialize(input, seed, beh)

(* MapAccess::next_key_seed and next_value_seed *)
next_key_seed(input, seed, beh) ==
    LET p == peek_next(input)
    IN IF p.st # "ok" THEN Fail(p)
       ELSE IF p.out[1] = ByteE
       THEN LET a == advance(input) IN IF a.st # "ok" THEN Fail(a) ELSE DOk(EndMark, a.rest)
       ELSE Deserialize(input, seed, beh)

next_value_seed(input, seed, beh) == Deserialize(input, seed, beh)

(* the visitor of Vec<T> that puts each new element in front *)
M_VecLoop(input, elem, beh, acc) ==
    Try(next_element_seed(input, elem, beh), LAMBDA r :
        IF r.val = EndMark THEN DOk(V("seq", acc), r.rest)
        ELSE VecLoop(r.rest, elem, beh, <<r.val>> \o acc))

(* the visitor of Vec<T>: next_element until None *)
VecLoop(input, elem, beh, acc) ==
    Try(next_element_seed(input, elem, beh), LAMBDA r :
        IF r.val = EndMark THEN DOk(V("seq", acc), r.rest)
        ELSE VecLoop(r.rest, elem, beh, Append(acc, r.val)))

(* the visitor of a tuple, an array, a tuple struct or a tuple variant: one  *)
(* next_element per position, and none after the last                       *)
TupleLoop(input, elems, beh, acc) ==
    IF elems = <<>> THEN DOk(V("tuple", acc), input)
    ELSE Try(next_element_seed(input, Head(elems), beh), LAMBDA r :
             IF r.val = EndMark THEN DErr(Message, r.rest)
             ELSE TupleLoop(r.rest, Tail(elems), beh, Append(acc, r.val)))

(* IgnoredAny::visit_seq and visit_map *)
IgnoreSeq(input, beh) ==
    Try(next_element_seed(input, V("ignored", <<>>), beh), LAMBDA r :
        IF r.val = EndMark THEN DOk(Unit, r.rest) ELSE IgnoreSeq(r.rest, beh))

IgnoreMap(input, beh) ==
    Try(next_key_seed(input, V("ignored", <<>>), beh), LAMBDA k :
        IF k.val = EndMark THEN DOk(Unit, k.rest)
        ELSE Try(next_value_seed(k.rest, V("ignored", <<>>), beh), LAMBDA x :
                 IgnoreMap(x.rest, beh)))

(* HashMap::insert on the list of entries *)
Insert(acc, key, val) ==
    IF \E i \in 1..Len(acc) : acc[i][1] = key
    THEN [i \in 1..Len(acc) |-> IF acc[i][1] = key THEN <<key, val>> ELSE acc[i]]
    ELSE Append(acc, <<key, val>>)

(* the visitor of a map type: next_entry until None *)
MapLoop(input, kseed, vseed, beh, acc) ==
    Try(next_key_seed(input, kseed, beh), LAMBDA k :
        IF k.val = EndMark THEN DOk(V("map", acc), k.rest)
        ELSE Try(next_value_seed(k.rest, vseed, beh), LAMBDA x :
                 MapLoop(x.rest, kseed, vseed, beh, Insert(acc, k.val, x.val))))

FieldNames(fields) == [i \in 1..Len(fields) |-> fields[i][1]]
Found(acc, name) == \E i \in 1..Len(acc) : acc[i][1] = name
Lookup(acc, name) == acc[CHOOSE i \in 1..Len(acc) : acc[i][1] = name][2]

(* the visit_map of a derived struct: fields by name in any order, an        *)
(* unknown key skipped, a field given twice or missing an error (a missing  *)
(* Option field is None)                                                    *)
StructLoop(input, fields, beh, acc) ==
    Try(next_key_seed(input, Ident(FieldNames(fields), FALSE), beh), LAMBDA k :
        IF k.val = EndMark
        THEN IF \E i \in 1..Len(fields) :
                    ~Found(acc, fields[i][1]) /\ fields[i][2].t # "option"
             THEN DErr(Message, k.rest)
             ELSE DOk(V("struct", [i \in 1..Len(fields) |->
                         <<fields[i][1],
                           IF Found(acc, fields[i][1]) THEN Lookup(acc, fields[i][1])
                           ELSE V("none", <<>>)>>]), k.rest)
        ELSE IF k.val.v = 0
        THEN Try(next_value_seed(k.rest, V("ignored", <<>>), beh), LAMBDA x :
                 StructLoop(x.rest, fields, beh, acc))
        ELSE IF Found(acc, fields[k.val.v][1]) THEN DErr(Message, k.rest)
        ELSE Try(next_value_seed(k.rest, fields[k.val.v][2], beh), LAMBDA x :
                 StructLoop(x.rest, fields, beh, Append(acc, <<fields[k.val.v][1], x.val>>))))

(* Visitor::visit_seq of the visitor that belongs to shape vis *)
visit_seq(vis, input, beh) ==
    CASE vis.t = "seq" -> VecLoop(input, vis.v, beh, <<>>)
      [] vis.t = "tuple" -> TupleLoop(input, vis.v, beh, <<>>)
      [] vis.t = "any" -> VecLoop(input, V("any", <<>>), beh, <<>>)
      [] vis.t = "ignored" -> IgnoreSeq(input, beh)
      [] OTHER -> DErr(Message, input)

(* Visitor::visit_map of the visitor that belongs to shape vis *)
visit_map(vis, input, beh) ==
    CASE vis.t = "map" -> MapLoop(input, vis.v[1], vis.v[2], beh, <<>>)
      [] vis.t = "struct" -> StructLoop(input, vis.v, beh, <<>>)
      [] vis.t = "any" -> MapLoop(input, V("any", <<>>), V("any", <<>>), beh, <<>>)
      [] vis.t = "ignored" -> IgnoreMap(input, beh)
      [] OTHER -> DErr(Message, input)

deserialize_seq(input, vis, beh) ==
    LET peek == advance(input)
    IN IF peek.st # "ok" THEN Fail(peek)
       ELSE IF peek.out[1] = ByteL THEN visit_seq(vis, peek.rest, beh)
       ELSE DErr(SyntaxError(peek.out[1], ByteL), peek.rest)

deserialize_tuple(input, vis, beh) ==
    Try(deserialize_seq(input, vis, beh), LAMBDA ret :
        Try(advance(ret.rest), LAMBDA a : DOk(ret.val, a.rest)))

deserialize_tuple_struct(input, vis, beh) == deserialize_seq(input, vis, beh)

(* deserialize_map reporting the byte found without the expected marker *)
M_deserialize_map(input, vis, beh) ==
    LET next == advance(input)
    IN IF next.st # "ok" THEN Fail(next)
       ELSE IF next.out[1] = ByteD THEN visit_map(vis, next.rest, beh)
       ELSE DErr(SyntaxError(next.out[1], NoByte), next.rest)

deserialize_map(input, vis, beh) ==
    LET next == advance(input)
    IN IF next.st # "ok" THEN Fail(next)
       ELSE IF next.out[1] = ByteD THEN visit_map(vis, next.rest, beh)
       ELSE DErr(SyntaxError(next.out[1], ByteD), next.rest)

deserialize_struct(input, vis, beh) == deserialize_map(input, vis, beh)

VariantNames(variants) == [i \in 1..Len(variants) |-> variants[i][1]]

(* VariantAccess for &mut Deserializer: the payload of variant var, read     *)
(* after its name: unit_variant, newtype_variant_seed, tuple_variant,       *)
(* struct_variant                                                           *)
variant_payload(input, var, beh) ==
    CASE var[2] = "unit" -> DErr(DeErr("ExpectedString"), input)
      [] var[2] = "newtype" ->
            Try(Deserialize(input, var[3], beh), LAMBDA r :
                DOk(V("newtype_variant", <<var[1], r.val>>), r.rest))
      [] var[2] = "tuple" ->
            Try(deserialize_seq(input, V("tuple", var[3]), beh), LAMBDA r :
                DOk(V("tuple_variant", <<var[1], r.val.v>>), r.rest))
      [] var[2] = "struct" ->
            Try(deserialize_map(input, V("struct", var[3]), beh), LAMBDA r :
                DOk(V("struct_variant", <<var[1], r.val.v>>), r.rest))

(* the derived visit_enum over EnumAccess for &mut Deserializer: variant_seed *)
(* reads the name, then the payload follows                                 *)
visit_enum(vis, input, beh) ==
    Try(Deserialize(input, Ident(VariantNames(vis.v), TRUE), beh), LAMBDA id :
        variant_payload(id.rest, vis.v[id.val.v], beh))

(* the derived visit_enum over a StrDeserializer: only a unit variant *)
visit_enum_str(vis, name, rest) ==
    LET i == NameIndex(VariantNames(vis.v), name)
    IN IF i = 0 THEN DErr(Message, rest)
       ELSE IF vis.v[i][2] # "unit" THEN DErr(Message, rest)
       ELSE DOk(V("unit_variant", name), rest)

deserialize_enum(input, vis, beh) ==
    LET p == peek_next(input)
    IN IF p.st # "ok" THEN Fail(p)
       ELSE IF p.out[1] = ByteD
       THEN Try(advance(input), LAMBDA a :
            Try(visit_enum(vis, a.rest, beh), LAMBDA res :
            Try(advance(res.rest), LAMBDA c :
                IF c.out[1] # ByteE THEN DErr(DeErr("ExpectedEndOfDictionary"), c.rest)
                ELSE DOk(res.val, c.rest))))
       ELSE IF IsDigit(p.out[1])
       THEN Try(parse_byte_string(input), LAMBDA bytes :
                IF ~Utf8Valid(bytes.out) THEN DErr(DeErr("Utf8Error"), bytes.rest)
                ELSE visit_enum_str(vis, bytes.out, bytes.rest))
       ELSE DErr(DeErr("ExpectedDictionary"), input)

Deserialize(input, shape, beh) ==
    CASE shape.t = "u64" -> deserialize_u64(input, shape)
      [] shape.t = "i64" -> deserialize_i64(input, shape)
      [] shape.t \in {"u8", "i32", "any", "ignored", "ident"} -> deserialize_any(input, shape, beh)
      [] shape.t = "bool" -> deserialize_bool(input, shape)
      [] shape.t = "str" -> deserialize_str(input, shape)
      [] shape.t = "bytes" -> deserialize_bytes(input, shape)
      [] shape.t = "unit" -> deserialize_unit(input, shape)
      [] shape.t = "char" -> deserialize_char(input, shape)
      [] shape.t = "f64" -> deserialize_f64(input, shape)
      [] shape.t = "option" -> deserialize_option(input, shape, beh)
      [] shape.t = "seq" -> deserialize_seq(input, shape, beh)
      [] shape.t = "tuple" -> deserialize_tuple(input, shape, beh)
      [] shape.t = "tuple_struct" -> deserialize_tuple_struct(input, V("tuple", shape.v), beh)
      [] shape.t = "map" -> deserialize_map(input, shape, beh)
      [] shape.t = "struct" -> deserialize_struct(input, shape, beh)
      [] shape.t = "enum" -> deserialize_enum(input, shape, beh)

(* _from_slice without the check of what remains *)
M_from_slice(slice, shape, beh) == Deserialize(slice, shape, beh)

(* _from_slice: the whole input must be consumed *)
from_slice(slice, shape, beh) ==
    Try(Deserialize(slice, shape, beh), LAMBDA t :
        IF t.rest = <<>> THEN t ELSE DErr(SyntaxError(t.rest[1], NoByte), t.rest))

----------------------------------------------------------------------------
(* The encoder.  A result is [st, err, out]: out is what reached the writer, *)
(* also when st = "err".  sort is the sort_dictionary feature.              *)
SOk(out) == [st |-> "ok", err |-> "none", out |-> out]
SErr(e, out) == [st |-> "err", err |-> e, out |-> out]
(* a step that follows the bytes pre already written *)
After(pre, r) == [st |-> r.st, err |-> r.err, out |-> pre \o r.out]

serialize_int(n) == SOk(<<ByteI>> \o Format(n) \o <<ByteE>>)
serialize_bytes(v) == SOk(AsciiDigits(NatDigits(Len(v))) \o <<Colon>> \o v)
serialize_str(v) == serialize_bytes(v)
(* serialize_bool that refuses every boolean *)
M_serialize_bool(b) == SErr("Message", <<>>)

serialize_bool(b) == serialize_int(MkInt(FALSE, IF b THEN <<1>> ELSE <<0>>))
(* serialize_f32 and serialize_f64 *)
serialize_f64 == SErr("FloatingPointNotSupported", <<>>)

serialize_unit == SOk(<<Digit0, Colon>>)

(* serialize_none that writes nothing and succeeds *)
M_serialize_none == SOk(<<>>)

serialize_none == SErr("NoneNotSupported", <<>>)

(* the stored key compared as it is, length prefix included *)
M_KeyBody(k) == k

(* the key of a stored key: what follows its length prefix and colon *)
KeyBody(k) == Drop(k, Position(k, Colon))

RECURSIVE InsertSorted(_, _)
(* one step of the stable sort: p goes behind every pair whose key is <= *)
InsertSorted(sorted, p) ==
    IF sorted = <<>> THEN <<p>>
    ELSE IF LexLeq(KeyBody(sorted[1][1]), KeyBody(p[1]))
    THEN <<sorted[1]>> \o InsertSorted(Tail(sorted), p)
    ELSE <<p>> \o sorted

(* no sort: the pairs as they were pushed *)
M_SortByKey(pairs) == pairs

RECURSIVE SortByKey(_)
(* map.sort_by(..) on the pairs of (key bytes, value bytes) *)
SortByKey(pairs) ==
    IF pairs = <<>> THEN <<>>
    ELSE InsertSorted(SortByKey(Take(pairs, Len(pairs) - 1)), pairs[Len(pairs)])

(* StructMapSerializer::sort_and_write_to_parent *)
sort_and_write_to_parent(pairs) ==
    LET map == SortByKey(pairs)
    IN SOk(Concat([i \in 1..Len(map) |-> map[i][1] \o map[i][2]]) \o <<ByteE>>)

(* OnlyStringSerializer: the encoder a map key is given *)
only_string_ser(key) ==
    IF key.t = "str" THEN serialize_str(key.v) ELSE SErr("DictionaryKeyMustBeString", <<>>)

RECURSIVE serialize(_, _), SerElems(_, _), SerEntries(_, _, _), BufEntries(_, _, _, _)

(* serialize_element / serialize_field of a list, one after the other *)
SerElems(vals, sort) ==
    IF vals = <<>> THEN SOk(<<>>)
    ELSE LET r == serialize(Head(vals), sort)
         IN IF r.st # "ok" THEN r ELSE After(r.out, SerElems(Tail(vals), sort))

(* the writer-through SerializeMap / SerializeStruct / SerializeStructVariant *)
(* of &mut Serializer: key then value, in the order supplied; isMap says     *)
(* that the key goes through OnlyStringSerializer                           *)
SerEntries(entries, isMap, sort) ==
    IF entries = <<>> THEN SOk(<<>>)
    ELSE LET k == IF isMap THEN only_string_ser(Head(entries)[1])
                  ELSE serialize_str(Head(entries)[1])
             x == serialize(Head(entries)[2], sort)
         IN IF k.st # "ok" THEN k
            ELSE IF x.st # "ok" THEN After(k.out, x)
            ELSE After(k.out \o x.out, SerEntries(Tail(entries), isMap, sort))

(* StructMapSerializer: keys and values are serialized into buffers of their *)
(* own and pushed; end() sorts and writes                                   *)
BufEntries(entries, isMap, sort, acc) ==
    IF entries = <<>> THEN sort_and_write_to_parent(acc)
    ELSE LET k == IF isMap THEN only_string_ser(Head(entries)[1])
                  ELSE serialize_str(Head(entries)[1])
             x == serialize(Head(entries)[2], sort)
         IN IF k.st # "ok" THEN SErr(k.err, <<>>)
            ELSE IF x.st # "ok" THEN SErr(x.err, <<>>)
            ELSE BufEntries(Tail(entries), isMap, sort, Append(acc, <<k.out, x.out>>))

(* serialize_map / serialize_struct and what follows until end() *)
serialize_map(entries, isMap, sort) ==
    IF sort THEN After(<<ByteD>>, BufEntries(entries, isMap, sort, <<>>))
    ELSE LET r == SerEntries(entries, isMap, sort)
         IN IF r.st # "ok" THEN After(<<ByteD>>, r) ELSE SOk(<<ByteD>> \o r.out \o <<ByteE>>)

(* serialize_seq whose end() writes nothing *)
M_serialize_seq(vals, sort) == After(<<ByteL>>, SerElems(vals, sort))

serialize_seq(vals, sort) ==
    LET r == SerElems(vals, sort)
    IN IF r.st # "ok" THEN After(<<ByteL>>, r) ELSE SOk(<<ByteL>> \o r.out \o <<ByteE>>)

serialize_newtype_variant(variant, value, sort) ==
    LET r == serialize(value, sort)
        pre == <<ByteD>> \o serialize_str(variant).out
    IN IF r.st # "ok" THEN After(pre, r) ELSE SOk(pre \o r.out \o <<ByteE>>)

(* serialize_tuple_variant is serialize_seq; the fields and end() follow *)
serialize_tuple_variant(variant, vals, sort) == serialize_seq(vals, sort)

serialize_struct_variant(variant, fields, sort) ==
    LET r == SerEntries(fields, FALSE, sort)
        pre == <<ByteD>> \o serialize_str(variant).out \o <<ByteD>>
    IN IF r.st # "ok" THEN After(pre, r) ELSE SOk(pre \o r.out \o <<ByteE, ByteE>>)

(* value.serialize(&mut serializer) *)
serialize(value, sort) ==
    CASE value.t \in IntTypes -> serialize_int(value.v)
      [] value.t = "bool" -> serialize_bool(value.v)
      [] value.t = "f64" -> serialize_f64
      [] value.t = "str" -> serialize_str(value.v)
      [] value.t = "bytes" -> serialize_bytes(value.v)
      [] value.t = "none" -> serialize_none
      [] value.t = "some" -> serialize(value.v, sort)
      [] value.t = "unit" -> serialize_unit
      [] value.t = "unit_variant" -> serialize_str(value.v)
      [] value.t = "newtype_variant" -> serialize_newtype_variant(value.v[1], value.v[2], sort)
      [] value.t = "tuple_variant" -> serialize_tuple_variant(value.v[1], value.v[2], sort)
      [] value.t = "struct_variant" -> serialize_struct_variant(value.v[1], value.v[2], sort)
      [] value.t \in {"seq", "tuple"} -> serialize_seq(value.v, sort)
      [] value.t = "map" -> serialize_map(value.v, TRUE, sort)
      [] value.t = "struct" -> serialize_map(value.v, FALSE, sort)

(* to_vec / to_writer *)
to_vec(value, sort) == serialize(value, sort)

----------------------------------------------------------------------------
(* The types and values the encoder is run on. *)
MaxSeq == 2
MaxMap == 2

TInt(ty) == V(ty, <<>>)
TStr == V("str", <<>>)
TBytes == V("bytes", <<>>)
TBool == V("bool", <<>>)
TUnit == V("unit", <<>>)
TAny == V("any", <<>>)
TSeq(elem) == V("seq", elem)
TOption(inner) == V("option", inner)
TMap(k, x) == V("map", <<k, x>>)
TStruct(fields) == V("struct", fields)
TEnum(variants) == V("enum", variants)
TTuple(elems) == V("tuple", elems)

KeyA == <<ByteA>>
KeyB == <<ByteB>>
KeyAA == <<ByteA, ByteA>>
NameT == <<84>>
NameN == <<78>>
NameP == <<80>>

(* struct S { b: u8, aa: str } *)
StructS == TStruct(<< <<KeyB, TInt("u8")>>, <<KeyAA, TStr>> >>)
(* enum E { a, N(u8), T(u8, u8), P { b: u8, a: str } } *)
EnumE == TEnum(<< <<KeyA, "unit", TUnit>>, <<NameN, "newtype", TInt("u8")>>,
                  <<NameT, "tuple", <<TInt("u8"), TInt("u8")>> >>,
                  <<NameP, "struct", << <<KeyB, TInt("u8")>>, <<KeyA, TStr>> >> >> >>)

(* struct M { b: Map<str, u8>, a: Option<u8> } *)
StructM == TStruct(<< <<KeyB, TMap(TStr, TInt("u8"))>>, <<KeyA, TOption(TInt("u8"))>> >>)
(* enum K { a, N(u8) } *)
EnumK == TEnum(<< <<KeyA, "unit", TUnit>>, <<NameN, "newtype", TInt("u8")>> >>)

BasicTypes ==
    { TInt("u64"), TInt("i64"), TInt("u8"), TInt("i32"), TStr, TBytes,
      TSeq(TInt("i64")), TSeq(TSeq(TInt("u8"))), TSeq(TOption(TStr)),
      TOption(TInt("i64")), TOption(TSeq(TStr)),
      TMap(TStr, TInt("i64")), StructS, TSeq(StructS), StructM }
EnumTypes == { EnumE }
(* maps whose key is not a text string *)
OddKeyTypes ==
    { TMap(TBytes, TInt("u8")), TMap(TInt("u8"), TInt("u8")), TMap(TBool, TInt("u8")),
      TMap(TUnit, TInt("u8")), TMap(TOption(TStr), TInt("u8")),
      TMap(TSeq(TUnit), TInt("u8")), TMap(EnumK, TInt("u8")) }
(* a boolean, the unit, a float, a map whose values may be absent, and the  *)
(* tuple struct Rgb(u8, u8, u8)                                             *)
PlainTypes ==
    { TBool, TUnit, V("f64", <<>>), TMap(TStr, TOption(TInt("i64"))),
      V("tuple_struct", <<TInt("u8"), TInt("u8"), TInt("u8")>>) }
Types == BasicTypes \cup EnumTypes \cup OddKeyTypes \cup PlainTypes

IntValues(ty) ==
    CASE ty = "u64" -> { Zero, MkInt(FALSE, <<1, 0>>), MkInt(FALSE, U64Max) }
      [] ty = "i64" -> { Zero, MkInt(TRUE, <<1>>), MkInt(FALSE, I64Max), MkInt(TRUE, I64MinMag) }
      [] ty = "u8" -> { Zero, MkInt(FALSE, U8Max) }
      [] ty = "i32" -> { MkInt(TRUE, I32MinMag), MkInt(FALSE, <<7>>) }
StrValues == { <<>>, KeyA, KeyB, KeyAA }
BytesValues == { <<>>, KeyA, <<ByteFF>>, <<Colon, ByteE>> }

SeqsUpTo(S, n) == UNION { [1..k -> S] : k \in 0..n }
Distinct(s) == \A i, j \in 1..Len(s) : i # j => s[i][1] # s[j][1]

RECURSIVE ValuesOf(_), FieldValues(_)
(* every assignment of values to a list of named fields *)
FieldValues(fields) ==
    IF fields = <<>> THEN { <<>> }
    ELSE { << <<Head(fields)[1], x>> >> \o rest :
              x \in ValuesOf(Head(fields)[2]), rest \in FieldValues(Tail(fields)) }

VariantValues(var) ==
    CASE var[2] = "unit" -> { V("unit_variant", var[1]) }
      [] var[2] = "newtype" -> { V("newtype_variant", <<var[1], x>>) : x \in ValuesOf(var[3]) }
      [] var[2] = "tuple" ->
            { V("tuple_variant", <<var[1], [i \in 1..Len(f) |-> f[i][2]]>>) :
                f \in FieldValues([i \in 1..Len(var[3]) |-> <<i, var[3][i]>>]) }
      [] var[2] = "struct" -> { V("struct_variant", <<var[1], f>>) : f \in FieldValues(var[3]) }

ValuesOf(ty) ==
    CASE ty.t \in IntTypes -> { V(ty.t, n) : n \in IntValues(ty.t) }
      [] ty.t = "str" -> { V("str", x) : x \in StrValues }
      [] ty.t = "bytes" -> { V("bytes", x) : x \in BytesValues }
      [] ty.t = "bool" -> { V("bool", x) : x \in BOOLEAN }
      [] ty.t = "unit" -> { Unit }
      [] ty.t = "f64" -> { V("f64", <<>>) }
      [] ty.t = "option" -> { V("none", <<>>) } \cup { V("some", x) : x \in ValuesOf(ty.v) }
      [] ty.t = "seq" -> { V("seq", x) : x \in SeqsUpTo(ValuesOf(ty.v), MaxSeq) }
      [] ty.t \in {"tuple", "tuple_struct"} ->
            { V("tuple", [i \in 1..Len(f) |-> f[i][2]]) :
                f \in FieldValues([i \in 1..Len(ty.v) |-> <<i, ty.v[i]>>]) }
      [] ty.t = "map" ->
            { V("map", x) :
                x \in { e \in SeqsUpTo(ValuesOf(ty.v[1]) \X ValuesOf(ty.v[2]), MaxMap) :
                          Distinct(e) } }
      [] ty.t = "struct" -> { V("struct", f) : f \in FieldValues(ty.v) }
      [] ty.t = "enum" -> UNION { VariantValues(ty.v[i]) : i \in 1..Len(ty.v) }

----------------------------------------------------------------------------
(* The inputs the decoder is run on: up to MaxInput chunks. *)
MaxInput == 4
Chunks ==
    { <<ByteI>>, <<ByteL>>, <<ByteD>>, <<ByteE>>, <<Minus>>, <<Colon>>, <<Digit0>>,
      <<Digit0 + 1>>, <<ByteA>>,
      <<ByteI, Digit0 + 1, ByteE>>, <<Digit0 + 1, Colon, ByteA>> }
Targets ==
    { TInt("u64"), TInt("i64"), TInt("u8"), TBool, TStr, TBytes, TAny,
      TSeq(TInt("u8")), TMap(TStr, TInt("u8")), TOption(TInt("i64")) }
Behaviours == { "Simple", "Auto" }

(* The inputs and targets of the shape-directed readers: whole tokens, a     *)
(* byte string that is not UTF-8, enums of each framing, a pair.              *)
(* enum N { a(u8) } and enum T { a(u8, u8) } *)
EnumN == TEnum(<< <<KeyA, "newtype", TInt("u8")>> >>)
EnumT == TEnum(<< <<KeyA, "tuple", <<TInt("u8"), TInt("u8")>> >> >>)
ShapeChunks ==
    { <<ByteD>>, <<ByteE>>, <<ByteL>>, <<ByteA>>,
      <<Digit0 + 1, Colon, ByteA>>, <<Digit0 + 1, Colon, ByteFF>>, <<Digit0, Colon>>,
      <<ByteI, Digit0 + 1, ByteE>>,
      <<ByteL, ByteI, Digit0 + 1, ByteE, ByteI, Digit0 + 1, ByteE, ByteE>> }
ShapeTargets ==
    { EnumK, EnumN, EnumT, V("char", <<>>), TUnit, V("f64", <<>>), TAny, TStr, TBytes, TBool,
      TInt("i64"), TInt("u64"), TSeq(TInt("i64")), TMap(TStr, TInt("i64")),
      TTuple(<<TInt("i64"), TInt("i64")>>) }

----------------------------------------------------------------------------
VARIABLES
    pc,               \* "feed", "decoded"; "new", "encoded"
    sort_dictionary,  \* the build feature
    ty, value,        \* the typed value under encode
    encoded,          \* what to_vec returned
    input, fed,       \* the bytes under decode, and how many chunks they are
    target, behaviour,
    decoded,          \* what _from_slice returned
    cursor,           \* Deserializer::input while cursor operations run
    last              \* the last cursor operation, the input it met and its result

vars == <<pc, sort_dictionary, ty, value, encoded, input, fed, target, behaviour, decoded,
          cursor, last>>

NoOp == [op |-> "none", arg |-> 0, before |-> <<>>, st |-> "ok", out |-> <<>>, err |-> NoErr]

Idle ==
    /\ sort_dictionary = FALSE
    /\ ty = NoVal /\ value = NoVal /\ encoded = SOk(<<>>)
    /\ input = <<>> /\ fed = 0
    /\ target = NoVal /\ behaviour = "Simple" /\ decoded = DOk(NoVal, <<>>)
    /\ cursor = <<>> /\ last = NoOp

(* Decoding arbitrary input *)
Init == pc = "feed" /\ Idle

Feed(c) ==
    /\ pc = "feed" /\ fed < MaxInput
    /\ input' = input \o c /\ fed' = fed + 1
    /\ UNCHANGED <<pc, sort_dictionary, ty, value, encoded, target, behaviour, decoded, cursor, last>>

Decode(shape, beh) ==
    /\ pc = "feed"
    /\ pc' = "decoded" /\ target' = shape /\ behaviour' = beh
    /\ decoded' = from_slice(input, shape, beh)
    /\ UNCHANGED <<sort_dictionary, ty, value, encoded, input, fed, cursor, last>>

Next ==
    /\ pc = "feed"
    /\ \/ \E c \in Chunks : Feed(c)
       \/ \E shape \in Targets, beh \in Behaviours : Decode(shape, beh)

Spec == Init /\ [][Next]_vars

(* Decoding tokens into each shape *)
NextShape ==
    /\ pc = "feed"
    /\ \/ \E c \in ShapeChunks : Feed(c)
       \/ \E shape \in ShapeTargets, beh \in Behaviours : Decode(shape, beh)

SpecShape == Init /\ [][NextShape]_vars

(* Decoding one integer token, at and around the limits of each width, into *)
(* each integer type                                                       *)
NextInt ==
    /\ pc = "feed"
    /\ \/ /\ fed = 0
          /\ \E neg \in BOOLEAN :
             \E mag \in { <<0>>, <<1>>, U8Max, <<2,5,6>>, I32Max, I32MinMag, <<2,1,4,7,4,8,3,6,4,9>>,
                          I64Max, I64MinMag, <<9,2,2,3,3,7,2,0,3,6,8,5,4,7,7,5,8,0,9>>,
                          U64Max, <<1,8,4,4,6,7,4,4,0,7,3,7,0,9,5,5,1,6,1,6>> } :
                 /\ ~(neg /\ mag = <<0>>)
                 /\ Feed(<<ByteI>> \o Format(MkInt(neg, mag)) \o <<ByteE>>)
       \/ \E t \in IntTypes, beh \in Behaviours : Decode(TInt(t), beh)

SpecInt == Init /\ [][NextInt]_vars

(* Encoding a value and decoding what was written *)
InitSer == pc = "new" /\ Idle

Encode(t, v, sort) ==
    /\ pc = "new"
    /\ pc' = "encoded" /\ ty' = t /\ value' = v /\ sort_dictionary' = sort
    /\ encoded' = to_vec(v, sort)
    /\ UNCHANGED <<input, fed, target, behaviour, decoded, cursor, last>>

DecodeEncoded(beh) ==
    /\ pc = "encoded" /\ encoded.st = "ok"
    /\ pc' = "decoded" /\ input' = encoded.out /\ target' = ty /\ behaviour' = beh
    /\ decoded' = from_slice(encoded.out, ty, beh)
    /\ UNCHANGED <<sort_dictionary, ty, value, encoded, fed, cursor, last>>

NextSer ==
    \/ pc = "new" /\ \E t \in Types, sort \in BOOLEAN : \E v \in ValuesOf(t) : Encode(t, v, sort)
    \/ pc = "encoded" /\ \E beh \in Behaviours : DecodeEncoded(beh)

SpecSer == InitSer /\ [][NextSer]_vars

(* Cursor operations on arbitrary input, one after the other *)
CursorBytes == { <<Colon>>, <<ByteE>>, <<Digit0>>, <<Digit0 + 1>>, <<ByteA>> }

Open ==
    /\ pc = "feed"
    /\ pc' = "cursor" /\ cursor' = input
    /\ UNCHANGED <<sort_dictionary, ty, value, encoded, input, fed, target, behaviour,
                   decoded, last>>

(* one cursor operation: a panic ends the call *)
Op(name, arg, r) ==
    /\ pc = "cursor"
    /\ last' = [op |-> name, arg |-> arg, before |-> cursor,
                st |-> r.st, out |-> r.out, err |-> r.err]
    /\ cursor' = r.rest
    /\ pc' = IF r.st = "panic" THEN "aborted" ELSE "cursor"
    /\ UNCHANGED <<sort_dictionary, ty, value, encoded, input, fed, target, behaviour, decoded>>

PeekNext == Op("peek_next", 0, peek_next(cursor))
PeekSecond == Op("peek_second", 0, peek_second(cursor))
Advance == Op("advance", 0, advance(cursor))
AdvanceBy(len) == Op("advance_by", len, advance_by(cursor, len))
AdvanceTo(byte) == Op("advance_to", byte, advance_to(cursor, byte))
ParseByteString == Op("parse_byte_string", 0, parse_byte_string(cursor))

NextCursor ==
    \/ pc = "feed" /\ \E c \in CursorBytes : Feed(c)
    \/ Open
    \/ PeekNext
    \/ PeekSecond
    \/ Advance
    \/ pc = "cursor" /\ \E len \in 0..(MaxInput + 1) : AdvanceBy(len)
    \/ pc = "cursor" /\ \E byte \in {Colon, ByteE} : AdvanceTo(byte)
    \/ ParseByteString

SpecCursor == Init /\ [][NextCursor]_vars

----------------------------------------------------------------------------
(* What the properties are stated with. *)

(* A value with every map taken as the set of its entries: two maps are      *)
(* equal when they hold the same entries, in whatever order.                 *)
RECURSIVE Norm(_)
Norm(x) ==
    CASE x.t = "map" ->
            V("map", { <<Norm(x.v[i][1]), Norm(x.v[i][2])>> : i \in 1..Len(x.v) })
      [] x.t \in {"seq", "tuple"} -> V(x.t, [i \in 1..Len(x.v) |-> Norm(x.v[i])])
      [] x.t = "struct" -> V("struct", [i \in 1..Len(x.v) |-> <<x.v[i][1], Norm(x.v[i][2])>>])
      [] x.t = "some" -> V("some", Norm(x.v))
      [] x.t = "newtype_variant" -> V(x.t, <<x.v[1], Norm(x.v[2])>>)
      [] x.t = "tuple_variant" -> V(x.t, <<x.v[1], [i \in 1..Len(x.v[2]) |-> Norm(x.v[2][i])]>>)
      [] x.t = "struct_variant" ->
            V(x.t, <<x.v[1], [i \in 1..Len(x.v[2]) |-> <<x.v[2][i][1], Norm(x.v[2][i][2])>>]>>)
      [] OTHER -> x

(* no absent optional anywhere in the value *)
RECURSIVE NoNone(_)
NoNone(x) ==
    CASE x.t = "none" -> FALSE
      [] x.t = "some" -> NoNone(x.v)
      [] x.t \in {"seq", "tuple"} -> \A i \in 1..Len(x.v) : NoNone(x.v[i])
      [] x.t \in {"map", "struct"} -> \A i \in 1..Len(x.v) : NoNone(x.v[i][2])
      [] x.t = "newtype_variant" -> NoNone(x.v[2])
      [] x.t = "tuple_variant" -> \A i \in 1..Len(x.v[2]) : NoNone(x.v[2][i])
      [] x.t = "struct_variant" -> \A i \in 1..Len(x.v[2]) : NoNone(x.v[2][i][2])
      [] OTHER -> TRUE

(* The wire grammar, read independently of the decoder: WParse(bytes) is     *)
(* [ok, tree, rest] for the one value bytes starts with.  A tree is an       *)
(* integer (its text), a byte string (its payload), a list (its items) or a  *)
(* dictionary (its pairs of key payload and tree).                           *)
WFail == [ok |-> FALSE, tree |-> NoVal, rest |-> <<>>]
WOk(tree, rest) == [ok |-> TRUE, tree |-> tree, rest |-> rest]
AllDigits(bs) == bs # <<>> /\ \A i \in 1..Len(bs) : IsDigit(bs[i])
WIntText(txt) ==
    LET ds == IF txt # <<>> /\ txt[1] = Minus THEN Tail(txt) ELSE txt
    IN /\ AllDigits(ds)
       /\ ds[1] = Digit0 => (Len(ds) = 1 /\ ds = txt)

RECURSIVE WParse(_), WItems(_, _), WPairs(_, _)
WParse(bytes) ==
    IF bytes = <<>> THEN WFail
    ELSE IF bytes[1] = ByteI
    THEN LET p == Position(bytes, ByteE)
         IN IF p = 0 \/ ~WIntText(SubSeq(bytes, 2, p - 1)) THEN WFail
            ELSE WOk(V("int", SubSeq(bytes, 2, p - 1)), Drop(bytes, p))
    ELSE IF IsDigit(bytes[1])
    THEN LET p == Position(bytes, Colon)
             pre == Take(bytes, p - 1)
             n == MagNat([i \in 1..Len(pre) |-> pre[i] - Digit0])
         IN IF p = 0 \/ p > 7 \/ ~AllDigits(pre) THEN WFail
            ELSE IF (pre[1] = Digit0 /\ Len(pre) > 1) \/ n > Len(bytes) - p THEN WFail
            ELSE WOk(V("str", SubSeq(bytes, p + 1, p + n)), Drop(bytes, p + n))
    ELSE IF bytes[1] = ByteL THEN WItems(Tail(bytes), <<>>)
    ELSE IF bytes[1] = ByteD THEN WPairs(Tail(bytes), <<>>)
    ELSE WFail

WItems(bytes, acc) ==
    IF bytes = <<>> THEN WFail
    ELSE IF bytes[1] = ByteE THEN WOk(V("list", acc), Tail(bytes))
    ELSE LET r == WParse(bytes)
         IN IF ~r.ok THEN WFail ELSE WItems(r.rest, Append(acc, r.tree))

WPairs(bytes, acc) ==
    IF bytes = <<>> THEN WFail
    ELSE IF bytes[1] = ByteE THEN WOk(V("dict", acc), Tail(bytes))
    ELSE LET k == WParse(bytes)
             x == WParse(k.rest)
         IN IF ~k.ok \/ k.tree.t # "str" THEN WFail
            ELSE IF ~x.ok THEN WFail
            ELSE WPairs(x.rest, Append(acc, <<k.tree.v, x.tree>>))

(* the tree of a whole output, NoVal when it is not exactly one value *)
TreeOf(bytes) ==
    LET r == WParse(bytes) IN IF r.ok /\ r.rest = <<>> THEN r.tree ELSE NoVal

(* what the caller of a decode sees: the value or the error, not the cursor *)
Seen(r) == [st |-> r.st, val |-> r.val, err |-> r.err]
TopLevel(r) ==
    IF r.st = "ok" /\ r.rest # <<>> THEN DErr(SyntaxError(r.rest[1], NoByte), r.rest) ELSE r

----------------------------------------------------------------------------
(* The claims. *)

I64Min == V("i64", MkInt(TRUE, I64MinMag))

(* C1: a value of a basic shape (integer, text, byte blob, list, string-keyed *)
(* dictionary, record, present optional) is encoded without error, and        *)
(* decoding the bytes into its type gives the value back.                     *)
C1_RoundTripBasic ==
    (pc \in {"encoded", "decoded"} /\ ty \in BasicTypes /\ NoNone(value)) =>
        /\ encoded.st = "ok"
        /\ pc = "decoded" => (decoded.st = "ok" /\ Norm(decoded.val) = Norm(value))

C1_Witness ==
    /\ pc = "decoded" /\ ty = TSeq(TInt("i64")) /\ Len(value.v) = 2
    /\ value.v[1] = I64Min
    /\ decoded.st = "ok" /\ decoded.val.v[1] = I64Min

(* C2: an enum value (unit, newtype, tuple or struct variant) is encoded      *)
(* without error, and decoding the bytes into the enum gives the value back.  *)
C2_RoundTripEnum ==
    (pc \in {"encoded", "decoded"} /\ ty \in EnumTypes /\ NoNone(value)) =>
        /\ encoded.st = "ok"
        /\ pc = "decoded" => (decoded.st = "ok" /\ Norm(decoded.val) = Norm(value))

(* every order in which the entries of the maps of a value can be supplied *)
Perms(n) == { p \in [1..n -> 1..n] : \A i, j \in 1..n : i # j => p[i] # p[j] }
RECURSIVE Reorderings(_), ReorderFields(_)
ReorderFields(fields) ==
    IF fields = <<>> THEN { <<>> }
    ELSE { << <<Head(fields)[1], x>> >> \o rest :
              x \in Reorderings(Head(fields)[2]), rest \in ReorderFields(Tail(fields)) }
Reorderings(x) ==
    CASE x.t = "map" ->
            { V("map", [i \in 1..Len(x.v) |-> x.v[p[i]]]) : p \in Perms(Len(x.v)) }
      [] x.t = "struct" -> { V("struct", f) : f \in ReorderFields(x.v) }
      [] OTHER -> { x }

(* C3: with canonical ordering, the same entries supplied in another order    *)
(* give the same bytes.                                                       *)
C3_CanonicalStable ==
    (pc = "encoded" /\ sort_dictionary /\ ty \in BasicTypes) =>
        \A w \in Reorderings(value) : to_vec(w, TRUE) = encoded

C3_Witness ==
    /\ pc = "encoded" /\ sort_dictionary /\ encoded.st = "ok"
    /\ value.t = "map" /\ Len(value.v) = 2
    /\ value.v[1][1].v = KeyB /\ value.v[2][1].v = KeyA

(* the key payloads of a dictionary tree, in wire order *)
TreeKeys(tree) == [i \in 1..Len(tree.v) |-> tree.v[i][1]]
StrictlyAscending(keys) ==
    \A i \in 1..(Len(keys) - 1) : LexLeq(keys[i], keys[i + 1]) /\ keys[i] # keys[i + 1]
(* the key payload of an entry of a map or of a record *)
KeyOf(x, i) == IF x.t = "map" THEN x.v[i][1].v ELSE x.v[i][1]

(* C4: with canonical ordering, the output of a map or record is one          *)
(* dictionary whose keys ascend in the order of their raw bytes, the length   *)
(* prefix not counting, and each key is followed by the value supplied with   *)
(* it.                                                                        *)
C4_SortedByRawKey ==
    (pc = "encoded" /\ sort_dictionary /\ encoded.st = "ok" /\ value.t \in {"map", "struct"}) =>
        LET tree == TreeOf(encoded.out)
        IN /\ tree.t = "dict" /\ Len(tree.v) = Len(value.v)
           /\ StrictlyAscending(TreeKeys(tree))
           /\ \A i \in 1..Len(value.v) : \E j \in 1..Len(tree.v) :
                /\ tree.v[j][1] = KeyOf(value, i)
                /\ tree.v[j][2] = TreeOf(to_vec(value.v[i][2], TRUE).out)

C4_Witness ==
    /\ pc = "encoded" /\ sort_dictionary /\ encoded.st = "ok"
    /\ value.t = "map" /\ Len(value.v) = 2
    /\ value.v[1][1].v = KeyB /\ value.v[2][1].v = KeyAA
    /\ TreeKeys(TreeOf(encoded.out)) = <<KeyAA, KeyB>>

(* C5: a top-level decode gives a value only when the value consumed the      *)
(* whole input; when bytes remain behind the value it gives the syntax error  *)
(* with the first of them and no expected byte.                               *)
C5_TrailingBytes ==
    pc = "decoded" =>
        LET t == Deserialize(input, target, behaviour)
        IN /\ decoded.st = "ok" => (t.st = "ok" /\ t.rest = <<>> /\ decoded.val = t.val)
           /\ (t.st = "ok" /\ t.rest # <<>>) =>
                (decoded.st = "err" /\ decoded.err = SyntaxError(t.rest[1], NoByte))

C5_Witness ==
    /\ pc = "decoded" /\ target = TInt("u64")
    /\ input = <<ByteI, Digit0 + 1, ByteE, ByteA>>
    /\ decoded.st = "err" /\ decoded.err = SyntaxError(ByteA, NoByte)

(* C6: a decode call returns a value or an error, whatever the input and the  *)
(* target are; it never aborts.                                               *)
C6_NeverAborts == pc = "decoded" => decoded.st \in {"ok", "err"}

(* the bytes a cursor operation needs are not there *)
Short(l) ==
    CASE l.op \in {"peek_next", "advance"} -> Len(l.before) < 1
      [] l.op = "peek_second" -> Len(l.before) < 2
      [] l.op = "advance_by" -> Len(l.before) < l.arg
      [] l.op = "advance_to" -> Position(l.before, l.arg) = 0
      [] l.op = "parse_byte_string" ->
            LET p == Position(l.before, Colon)
                pre == Take(l.before, p - 1)
            IN p = 0 \/ (AllDigits(pre) /\
                         MagNat([i \in 1..Len(pre) |-> pre[i] - Digit0]) > Len(l.before) - p)
      [] OTHER -> FALSE

(* C7: a cursor operation that finds fewer bytes than it needs fails with     *)
(* UnexpectedEof; a byte string declared longer than what remains is such a   *)
(* failure.                                                                   *)
C7_CursorEof ==
    (last.op # "none" /\ Short(last)) => (last.st = "err" /\ last.err = UnexpectedEof)

(* the kind of value a first byte (and a second) announces *)
Announced(bytes) ==
    CASE bytes[1] = ByteI /\ Len(bytes) >= 2 /\ bytes[2] = Minus -> {"i64"}
      [] bytes[1] = ByteI /\ ~(Len(bytes) >= 2 /\ bytes[2] = Minus) -> {"u64"}
      [] bytes[1] = ByteL -> {"seq"}
      [] bytes[1] = ByteD -> {"map"}
      [] IsDigit(bytes[1]) -> {"bytes", "str"}
      [] OTHER -> {}

(* C8: self-describing decode goes by the lookahead alone: i and then - is    *)
(* the signed integer reader, i otherwise the unsigned one, l the list, d the *)
(* dictionary, a digit the byte string reader, and any other first byte is    *)
(* the syntax error with that byte.                                           *)
C8_DispatchOnLookahead ==
    (pc = "decoded" /\ target \in {TAny, TInt("u8")} /\ input # <<>>) =>
        LET b == input[1]
            path == CASE b = ByteI /\ Len(input) >= 2 /\ input[2] = Minus ->
                            deserialize_i64(input, target)
                      [] b = ByteI /\ ~(Len(input) >= 2 /\ input[2] = Minus) ->
                            deserialize_u64(input, target)
                      [] b = ByteL -> deserialize_seq(input, target, behaviour)
                      [] b = ByteD -> deserialize_map(input, target, behaviour)
                      [] IsDigit(b) -> deserialize_byte_string(input, target, behaviour)
                      [] OTHER -> DErr(SyntaxError(b, NoByte), input)
        IN /\ Seen(decoded) = Seen(TopLevel(path))
           /\ Announced(input) = {} => (decoded.st = "err" /\ decoded.err = SyntaxError(b, NoByte))
           /\ (target = TAny /\ decoded.st = "ok") => decoded.val.t \in Announced(input)

C8_Witness ==
    /\ pc = "decoded" /\ target = TAny /\ input = <<ByteI, Minus, Digit0 + 1, ByteE>>
    /\ decoded.st = "ok" /\ decoded.val = V("i64", MkInt(TRUE, <<1>>))

(* the marker of a target shape, NoByte for the shapes that have none *)
MarkerOf(shape) ==
    CASE shape.t \in {"u64", "i64", "bool"} -> ByteI
      [] shape.t = "seq" -> ByteL
      [] shape.t = "map" -> ByteD
      [] OTHER -> NoByte
MarkerMismatch(bytes, shape) ==
    /\ bytes # <<>>
    /\ IF shape.t \in {"str", "bytes"} THEN ~IsDigit(bytes[1]) ELSE bytes[1] # MarkerOf(shape)
DirectTargets ==
    { s \in Targets : s.t \in {"u64", "i64", "bool", "str", "bytes", "seq", "map"} }

C10_KeyMustBeString ==
    (pc = "encoded" /\ value.t = "map" /\ Len(value.v) > 0) =>
        IF \A i \in 1..Len(value.v) : value.v[i][1].t \in {"str", "bytes"}
        THEN /\ encoded.st = "ok"
             /\ TreeOf(encoded.out).t = "dict"
             /\ { TreeOf(encoded.out).v[j][1] : j \in 1..Len(TreeOf(encoded.out).v) }
                  = { value.v[i][1].v : i \in 1..Len(value.v) }
        ELSE encoded.st = "err" /\ encoded.err = "DictionaryKeyMustBeString"

(* C11: a variant without payload is written as the byte string of its name; *)
(* a newtype, tuple or struct variant is written as a dictionary of exactly   *)
(* one entry, the variant name as key and the payload (scalar, list,         *)
(* dictionary) as value.                                                      *)
C11_VariantFraming ==
    (pc = "encoded" /\ ty \in EnumTypes) =>
        LET tree == TreeOf(encoded.out)
        IN /\ encoded.st = "ok"
           /\ IF value.t = "unit_variant" THEN tree = V("str", value.v)
              ELSE /\ tree.t = "dict" /\ Len(tree.v) = 1
                   /\ tree.v[1][1] = value.v[1]
                   /\ CASE value.t = "newtype_variant" ->
                                tree.v[1][2] = TreeOf(to_vec(value.v[2], sort_dictionary).out)
                        [] value.t = "tuple_variant" ->
                                tree.v[1][2].t = "list" /\ Len(tree.v[1][2].v) = Len(value.v[2])
                        [] value.t = "struct_variant" ->
                                tree.v[1][2].t = "dict" /\ Len(tree.v[1][2].v) = Len(value.v[2])

(* the bytes of one payload that fits the only variant of EnumN or EnumT *)
PayloadOf(t) ==
    IF t = EnumN THEN <<ByteI, Digit0 + 1, ByteE>>
    ELSE <<ByteL, ByteI, Digit0 + 1, ByteE, ByteI, Digit0 + 1, ByteE, ByteE>>

FramedVariant(t) == <<ByteD, Digit0 + 1, Colon, ByteA>> \o PayloadOf(t)

(* C12: decoding an enum from a dictionary-framed variant succeeds only when *)
(* the byte right after the single payload is e, any other byte there gives   *)
(* ExpectedEndOfDictionary, and an input whose first byte is neither a digit  *)
(* nor d gives ExpectedDictionary.                                            *)
C12_EnumTerminator ==
    (pc = "decoded" /\ target \in {EnumN, EnumT}) =>
        LET n == Len(FramedVariant(target))
        IN /\ (input # <<>> /\ ~IsDigit(input[1]) /\ input[1] # ByteD) =>
                  (decoded.st = "err" /\ decoded.err = DeErr("ExpectedDictionary"))
           /\ (Len(input) > n /\ Take(input, n) = FramedVariant(target)) =>
                  IF input[n + 1] = ByteE THEN Len(input) = n + 1 => decoded.st = "ok"
                  ELSE decoded.st = "err" /\ decoded.err = DeErr("ExpectedEndOfDictionary")

(* C13: decoding an optional value gives the absent value exactly when no    *)
(* input is left; with input left the inner value is decoded and the result  *)
(* is the present value holding it (i1e gives present 1), or its error.      *)
C13_OptionByEmptiness ==
    (pc = "decoded" /\ target = TOption(TInt("i64"))) =>
        IF input = <<>> THEN decoded.st = "ok" /\ decoded.val = V("none", <<>>)
        ELSE LET inner == from_slice(input, TInt("i64"), behaviour)
             IN /\ decoded.st = inner.st /\ decoded.err = inner.err
                /\ decoded.val # V("none", <<>>)
                /\ inner.st = "ok" => decoded.val = V("some", inner.val)

C13_Witness ==
    /\ pc = "decoded" /\ target = TOption(TInt("i64"))
    /\ input = <<ByteI, Digit0 + 1, ByteE>>
    /\ decoded.st = "ok" /\ decoded.val = V("some", V("i64", MkInt(FALSE, <<1>>)))

(* C14: a byte string decoded self-describing is a binary blob under Simple; *)
(* under Auto it is text when its payload is valid UTF-8 and a binary blob    *)
(* otherwise; both behaviours consume the same bytes, so what follows the     *)
(* string is met at the same place.                                           *)
C14_ByteStringByBehaviour ==
    (pc = "decoded" /\ target = TAny /\ input # <<>> /\ IsDigit(input[1])) =>
        LET w == WParse(input)
        IN w.ok =>
             IF w.rest # <<>>
             THEN decoded.st = "err" /\ decoded.err = SyntaxError(w.rest[1], NoByte)
             ELSE /\ decoded.st = "ok"
                  /\ decoded.val = IF behaviour = "Auto" /\ Utf8Valid(w.tree.v)
                                   THEN V("str", w.tree.v) ELSE V("bytes", w.tree.v)

C14_Witness ==
    /\ pc = "decoded" /\ target = TAny /\ behaviour = "Auto"
    /\ input = <<Digit0 + 1, Colon, ByteFF>>
    /\ decoded.st = "ok" /\ decoded.val = V("bytes", <<ByteFF>>)

(* the targets whose shape the caller fixes: text, byte buffer, 64-bit       *)
(* integers, boolean, char, unit, list and dictionary                        *)
ShapeDirected ==
    { TStr, TBytes, TInt("i64"), TInt("u64"), TBool, V("char", <<>>), TUnit,
      TSeq(TInt("i64")), TMap(TStr, TInt("i64")) }

OtherBehaviour == IF behaviour = "Simple" THEN "Auto" ELSE "Simple"

(* C15: the behaviour does not influence a decode whose shape the caller     *)
(* fixes: Simple and Auto give the same value or error and leave the cursor  *)
(* at the same place.                                                        *)
C15_BehaviourIrrelevant ==
    (pc = "decoded" /\ target \in ShapeDirected) =>
        /\ decoded = from_slice(input, target, OtherBehaviour)
        /\ Deserialize(input, target, "Simple") = Deserialize(input, target, "Auto")

C15_Witness ==
    /\ pc = "decoded" /\ target = TSeq(TInt("i64")) /\ behaviour = "Auto"
    /\ input = <<ByteL, ByteI, Digit0 + 1, ByteE, ByteI, Digit0 + 1, ByteE, ByteE>>
    /\ decoded.st = "ok" /\ Len(decoded.val.v) = 2

(* the build switches the claims name; the encoder reads neither of them *)
BuildSwitches == [bool_support : BOOLEAN, none_is_error : BOOLEAN]

BoolText(b) == <<ByteI, IF b THEN Digit0 + 1 ELSE Digit0, ByteE>>

(* C16 as claimed: a boolean is refused unless the bool-support switch is    *)
(* on, and with the switch on true is written i1e and false i0e.             *)
C16_BoolGatedBySwitch ==
    \A sw \in BuildSwitches :
        (pc = "encoded" /\ ty = TBool) =>
            IF sw.bool_support THEN encoded = SOk(BoolText(value.v))
            ELSE encoded.st = "err"

(* C16: a boolean is always encoded, true as i1e and false as i0e, whatever  *)
(* the build configuration.                                                  *)
C16_BoolAlwaysInteger ==
    (pc = "encoded" /\ ty = TBool) => encoded = SOk(BoolText(value.v))

C16_Witness ==
    /\ pc = "encoded" /\ ty = TBool /\ value = V("bool", TRUE)
    /\ encoded.out = <<ByteI, Digit0 + 1, ByteE>>

(* C17 as claimed: a float is rejected with FloatingPointNotSupported, on    *)
(* encode and on decode alike.                                               *)
C17_FloatNotSupportedBothWays ==
    (pc = "decoded" /\ target = V("f64", <<>>)) =>
        /\ to_vec(V("f64", <<>>), sort_dictionary) = SErr("FloatingPointNotSupported", <<>>)
        /\ decoded.st = "err" /\ decoded.err = DeErr("FloatingPointNotSupported")

(* C17: a float is rejected unconditionally: encoding one fails with         *)
(* FloatingPointNotSupported, and decoding into one fails, whatever the      *)
(* input, with the Message error that says the type is not supported.        *)
C17_FloatRejected ==
    (pc = "decoded" /\ target = V("f64", <<>>)) =>
        /\ to_vec(V("f64", <<>>), sort_dictionary) = SErr("FloatingPointNotSupported", <<>>)
        /\ decoded.st = "err" /\ decoded.err = Message

C17_Witness ==
    /\ pc = "decoded" /\ target = V("f64", <<>>)
    /\ input = <<ByteI, Digit0 + 1, ByteE>>
    /\ decoded.st = "err" /\ decoded.err = Message

AbsentTypes == { TOption(TInt("i64")), TOption(TSeq(TStr)) }
MapOfOptions == TMap(TStr, TOption(TInt("i64")))
HasAbsent(entries) == \E i \in 1..Len(entries) : entries[i][2] = V("none", <<>>)

(* C18 as claimed: an absent optional value follows the none-is-error        *)
(* switch: with it on the encode fails with NoneNotSupported, also when the  *)
(* absent value is a map value; with it off the encode succeeds and writes   *)
(* nothing.  A present value is written exactly as the value it holds.       *)
C18_NoneFollowsSwitch ==
    \A sw \in BuildSwitches :
        /\ (pc = "encoded" /\ ty \in AbsentTypes /\ value.t = "none") =>
               IF sw.none_is_error
               THEN encoded.st = "err" /\ encoded.err = "NoneNotSupported"
               ELSE encoded = SOk(<<>>)
        /\ (pc = "encoded" /\ ty = MapOfOptions /\ HasAbsent(value.v) /\ sw.none_is_error) =>
               (encoded.st = "err" /\ encoded.err = "NoneNotSupported")
        /\ (pc = "encoded" /\ ty \in AbsentTypes /\ value.t = "some") =>
               encoded = to_vec(value.v, sort_dictionary)

(* C18: encoding an absent optional value always fails with                  *)
(* NoneNotSupported, whatever the build configuration, also when the absent  *)
(* value is a map value; a present value is written exactly as the value it  *)
(* holds.                                                                    *)
C18_NoneAlwaysError ==
    /\ (pc = "encoded" /\ ty \in AbsentTypes /\ value.t = "none") =>
           (encoded.st = "err" /\ encoded.err = "NoneNotSupported")
    /\ (pc = "encoded" /\ ty = MapOfOptions /\ HasAbsent(value.v)) =>
           (encoded.st = "err" /\ encoded.err = "NoneNotSupported")
    /\ (pc = "encoded" /\ ty \in AbsentTypes /\ value.t = "some") =>
           encoded = to_vec(value.v, sort_dictionary)

C18_Witness ==
    /\ pc = "encoded" /\ ty = MapOfOptions /\ Len(value.v) = 2
    /\ value.v[1][2].t = "some" /\ value.v[2][2] = V("none", <<>>)
    /\ encoded.err = "NoneNotSupported"

(* C19: the unit is always encoded as 0: ; decoding a unit moves the cursor  *)
(* on by exactly two bytes and gives the unit; with fewer than two bytes     *)
(* left the decode ends with an error.                                       *)
C19_UnitTwoBytes ==
    (pc = "decoded" /\ target = TUnit) =>
        /\ to_vec(Unit, sort_dictionary) = SOk(<<Digit0, Colon>>)
        /\ IF Len(input) < 2 THEN decoded.st = "err"
           ELSE Deserialize(input, TUnit, behaviour) = DOk(Unit, Drop(input, 2))

(* di1ei1ee: a dictionary whose only key is the integer 1 *)
IntKeyDict == <<ByteD, ByteI, Digit0 + 1, ByteE, ByteI, Digit0 + 1, ByteE, ByteE>>

(* C20: a dictionary key is always read as a byte string: when the bytes at  *)
(* the key are not a byte string (di1ei1ee) the decode fails, whatever key   *)
(* type the caller asked for.                                                *)
C20_KeyReadAsByteString ==
    (pc = "decoded" /\ target \in {TAny, TMap(TStr, TInt("u8"))} /\ input = IntKeyDict) =>
        decoded.st = "err"

IsSuffix(s, t) == Len(s) <= Len(t) /\ s = Drop(t, Len(t) - Len(s))

(* C21: throughout the cursor operations of one call the remaining input is  *)
(* a suffix of the original buffer and of what remained before the last      *)
(* operation (it never grows, the position is never rewound), and a slice     *)
(* handed out lies in the buffer where the cursor stood: right before the     *)
(* new position, the end byte of advance_to between them.                     *)
C21_CursorMonotone ==
    (pc \in {"cursor", "aborted"}) =>
        /\ IsSuffix(cursor, input)
        /\ last.op # "none" => (IsSuffix(cursor, last.before) /\ IsSuffix(last.before, input))
        /\ (last.op # "none" /\ last.st = "ok") =>
              CASE last.op \in {"advance", "advance_by"} -> last.before = last.out \o cursor
                [] last.op = "advance_to" -> last.before = last.out \o <<last.arg>> \o cursor
                [] last.op = "parse_byte_string" ->
                      \E k \in 1..Len(last.before) :
                          last.before = Take(last.before, k) \o last.out \o cursor
                [] OTHER -> cursor = last.before

C21_Witness ==
    /\ pc = "cursor" /\ last.op = "parse_byte_string" /\ last.st = "ok"
    /\ last.before = <<Digit0 + 1, Colon, ByteA, ByteE>>
    /\ last.out = <<ByteA>> /\ cursor = <<ByteE>>

(* the tree of a value as the encoder writes it under the build's ordering *)
WireOf(x) == TreeOf(to_vec(x, sort_dictionary).out)

(* C22: a list yields its elements and a dictionary its pairs in wire order, *)
(* whether or not the keys are sorted, the single e that ends the container  *)
(* is consumed, and the same container without its terminating e fails      *)
(* with UnexpectedEof.                                                       *)
C22_WireOrder ==
    (pc = "decoded" /\ ty.t \in {"seq", "map"}) =>
        LET tree == TreeOf(input)
        IN /\ decoded.st = "ok" /\ decoded.rest = <<>>
           /\ Len(decoded.val.v) = Len(tree.v)
           /\ \A i \in 1..Len(tree.v) :
                 IF ty.t = "seq" THEN WireOf(decoded.val.v[i]) = tree.v[i]
                 ELSE /\ decoded.val.v[i][1].v = tree.v[i][1]
                      /\ WireOf(decoded.val.v[i][2]) = tree.v[i][2]
           /\ LET cut == from_slice(Take(input, Len(input) - 1), ty, behaviour)
              IN cut.st = "err" /\ cut.err = UnexpectedEof

(* a dictionary whose keys come b before a on the wire *)
C22_Witness ==
    /\ pc = "decoded" /\ ty = TMap(TStr, TInt("i64")) /\ ~sort_dictionary
    /\ Len(decoded.val.v) = 2
    /\ decoded.val.v[1][1].v = KeyB /\ decoded.val.v[2][1].v = KeyA
    /\ TreeOf(input).v[1][1] = KeyB

(* the sign and the digits of the integer token under decode *)
TokenNeg == input[2] = Minus
TokenMag ==
    LET ds == SubSeq(input, IF TokenNeg THEN 3 ELSE 2, Len(input) - 1)
    IN [i \in 1..Len(ds) |-> ds[i] - Digit0]

(* the digits of a magnitude as a number of at most three digits, 999 for more *)
Small(mag) == IF Len(mag) > 3 THEN 999 ELSE MagNat(mag)

(* the token's value lies in the range of the integer type t *)
Fits(t) ==
    CASE t = "u8" -> ~TokenNeg /\ Small(TokenMag) <= 255
      [] t = "u64" -> ~TokenNeg /\ MagLeq(TokenMag, U64Max)
      [] t = "i64" -> MagLeq(TokenMag, IF TokenNeg THEN I64MinMag ELSE I64Max)
      [] t = "i32" -> MagLeq(TokenMag, IF TokenNeg THEN I32MinMag ELSE I32Max)

(* C23: integer decode is bounded by the target width and never wraps: a     *)
(* token whose value is outside the range of the target type is an error,    *)
(* and a token whose value is inside the range decodes to exactly that value. *)
C23_IntegerBounded ==
    (pc = "decoded" /\ fed = 1) =>
        IF Fits(target.t)
        THEN decoded.st = "ok" /\ decoded.val = V(target.t, MkInt(TokenNeg, TokenMag))
        ELSE decoded.st = "err"

C23_Witness ==
    /\ pc = "decoded" /\ target = TInt("i64")
    /\ input = <<ByteI>> \o AsciiDigits(I64MinMag) \o <<ByteE>>
    /\ decoded.st = "err"

(* C24: the integer tokens the documentation lists as malformed are refused: *)
(* digits that start with 0 other than i0e itself (i01e), and the negative   *)
(* zero i-0e, give an error and no integer value.                            *)
C24_MalformedIntegerRefused ==
    (/\ pc = "decoded" /\ target \in {TInt("u64"), TInt("i64"), TInt("u8"), TAny}
     /\ input \in { <<ByteI, Digit0, Digit0 + 1, ByteE>>, <<ByteI, Digit0, Digit0, ByteE>>,
                    <<ByteI, Minus, Digit0, ByteE>> })
        => decoded.st = "err"

(* the element, key and value types the loops are asked for *)
LoopSeeds ==
    { TInt("u8"), TInt("i64"), TBool, TStr, TBytes, TUnit, TAny, TOption(TInt("i64")),
      TOption(TUnit), TSeq(TAny) }

(* C25: inside a list or dictionary loop every step that succeeds consumes   *)
(* at least one byte: the end of the container consumes its e, an element    *)
(* and an entry (key, then value) strictly shorten the remaining input, so   *)
(* a decode reaches a value or an error after finitely many steps.  The      *)
(* remaining input is every input the loops can be handed.                   *)
C25_LoopsConsume ==
    (pc = "decoded" /\ target \in {TSeq(TInt("i64")), TMap(TStr, TInt("i64"))}) =>
        /\ decoded.st \in {"ok", "err", "panic"}
        /\ \A seed \in LoopSeeds :
              LET el == next_element_seed(input, seed, behaviour)
                  key == next_key_seed(input, seed, behaviour)
              IN /\ el.st = "ok" => Len(el.rest) < Len(input)
                 /\ key.st = "ok" => Len(key.rest) < Len(input)
        /\ LET key == next_key_seed(input, TStr, behaviour)
           IN (key.st = "ok" /\ key.val # EndMark) =>
                 \A seed \in LoopSeeds :
                     LET x == next_value_seed(key.rest, seed, behaviour)
                     IN x.st = "ok" => Len(x.rest) < Len(input)

C25_Witness ==
    /\ pc = "decoded" /\ target = TSeq(TInt("i64"))
    /\ input = <<ByteL, ByteI, Digit0 + 1, ByteE, ByteI, Digit0 + 1, ByteE, ByteE>>
    /\ decoded.st = "ok" /\ Len(decoded.val.v) = 2

(* C26: a failed encode exposes no partial output: when to_writer returns an *)
(* error, no byte of the value has been written to the sink.                 *)
C26_NoPartialOutput ==
    (pc = "encoded" /\ encoded.st = "err") => encoded.out = <<>>

PairOfInts == TTuple(<<TInt("i64"), TInt("i64")>>)

(* li1ei1e: a list opened and two elements *)
TwoElements == <<ByteL, ByteI, Digit0 + 1, ByteE, ByteI, Digit0 + 1, ByteE>>

(* C27: decoding a tuple of N elements succeeds only when the byte after the *)
(* N-th element is the list terminator e; a list with more elements, or any  *)
(* other byte in the terminator position, is an error.                       *)
C27_TupleTerminator ==
    (/\ pc = "decoded" /\ target = PairOfInts
     /\ Len(input) > Len(TwoElements) /\ Take(input, Len(TwoElements)) = TwoElements)
        => IF input[Len(TwoElements) + 1] = ByteE
           THEN Len(input) = Len(TwoElements) + 1 => decoded.st = "ok"
           ELSE decoded.st = "err"

(* C28: a tuple struct of N fields is encoded as the list of its N field     *)
(* values, and decoding those bytes into the same tuple struct consumes the  *)
(* whole list, its closing e included, and gives an equal value.             *)
C28_TupleStructRoundTrip ==
    (pc \in {"encoded", "decoded"} /\ ty.t = "tuple_struct") =>
        /\ encoded.st = "ok"
        /\ TreeOf(encoded.out).t = "list"
        /\ Len(TreeOf(encoded.out).v) = Len(ty.v)
        /\ pc = "decoded" => (decoded.st = "ok" /\ decoded.val = value)

(* every dictionary of a tree, at any depth, has strictly ascending keys *)
RECURSIVE AllDictsSorted(_)
AllDictsSorted(tree) ==
    CASE tree.t = "dict" ->
             /\ StrictlyAscending(TreeKeys(tree))
             /\ \A i \in 1..Len(tree.v) : AllDictsSorted(tree.v[i][2])
      [] tree.t = "list" -> \A i \in 1..Len(tree.v) : AllDictsSorted(tree.v[i])
      [] OTHER -> TRUE

(* C29: with canonical ordering, every dictionary anywhere in the output of   *)
(* a successful encode has its keys in ascending raw-byte order: the          *)
(* dictionary of a map, of a record, one nested inside a value, and the field *)
(* dictionary of a struct variant.                                            *)
C29_EveryDictionarySorted ==
    (pc = "encoded" /\ sort_dictionary /\ encoded.st = "ok") =>
        AllDictsSorted(TreeOf(encoded.out))

(* C30: the output of a successful encode is exactly one well-formed value of *)
(* the wire grammar: a byte string whose length prefix counts its payload, an *)
(* integer, a list or a dictionary, each l and d closed by its own e and each *)
(* dictionary key a byte string, with nothing before or after it.             *)
C30_OneWellFormedValue ==
    (pc = "encoded" /\ encoded.st = "ok") =>
        TreeOf(encoded.out).t \in {"str", "int", "list", "dict"}

C30_Witness ==
    /\ pc = "encoded" /\ encoded.st = "ok"
    /\ ty = TSeq(StructS) /\ Len(value.v) = 2
    /\ TreeOf(encoded.out).t = "list"
    /\ TreeOf(encoded.out).v[2].t = "dict"
====
